---- MODULE Spec2Model ----
(***************************************************************************)
(* Model of the admin registry of main.go: Setup, Admin.Group,             *)
(* modelGroup.RegisterModel (the reflection pass that derives a model's    *)
(* fields from a record type), the model's projections (fieldNames,        *)
(* tableColumns, listColumns, listTableColumns, fieldByName), renderForm   *)
(* and Admin.modelURL.                                                     *)
(*                                                                         *)
(* A record type is a value [String, AdminName, Fields]: String is         *)
(* t.String() as its dot-separated parts, AdminName is what AdminName()    *)
(* returns (Nil when the type is not a namedModel) and Fields is the       *)
(* sequence of struct fields [Name, Kind, Tag] in declaration order.  A    *)
(* tag is the `admin` struct tag as its comma-separated tokens, each token *)
(* as its `=`-separated parts: "label=Title,list" is                       *)
(* << <<"label","Title">>, <<"list">> >> and "-" is << <<"-">> >>.          *)
(***************************************************************************)
EXTENDS Integers, Sequences, FiniteSets, TLC

VARIABLES
    admin,        \* the Admin struct's scalar fields
    models,       \* Admin.models: slug -> model (meaningful once admin.modelsSet)
    modelGroups,  \* Admin.modelGroups: sequence of modelGroup
    nextId,       \* the next model allocated (&am) gets this identity
    app,          \* the record types the embedding application declares
    w,            \* what the latest renderForm call received and wrote
    panicked      \* RegisterModel panicked: the process is gone

vars == <<admin, models, modelGroups, nextId, app, w, panicked>>

----------------------------------------------------------------------------
(* Bounds *)

MaxFields == 3   \* struct fields of a multi-field record type
MaxModels == 2   \* RegisterModel calls in one run
MaxGroups == 2   \* Group calls in one run
MaxData   == 3   \* length of the data and errors slices given to renderForm

----------------------------------------------------------------------------
(* Values *)

Nil == "<nil>"

\* reflect.Kind of a struct field
IntKinds   == {"int", "int8", "int16", "int32", "int64",
               "uint", "uint8", "uint16", "uint32", "uint64"}
FloatKinds == {"float32", "float64"}
Kinds      == {"string", "struct", "ptr", "bool", "slice"} \cup IntKinds \cup FloatKinds

Range(s) == {s[i] : i \in DOMAIN s}

\* Admin.NameTransform: nil, or a function of the caller's; here the one
\* that prefixes the name.
NameTransforms == {Nil, "prefix"}

NameTransform(nt, s) == IF nt = "prefix" THEN "db_" \o s ELSE s

\* slug.SlugAscii on the names that occur: lower case, hyphen for a space.
SlugAscii(s) ==
    CASE s = "Post"      -> "post"
      [] s = "post"      -> "post"
      [] s = "Blog Post" -> "blog-post"
      [] s = "Entry"     -> "entry"
      [] s = "Tag"       -> "tag"
      [] s = "Item"      -> "item"
      [] s = "Main"      -> "main"
      [] s = "Other"     -> "other"
      [] OTHER           -> s

----------------------------------------------------------------------------
(* Tags *)

SkipTag == << <<"-">> >>

\* parseTag: key=val / key options of a struct tag as a map; a bare key
\* maps to the empty string, a later token overrides an earlier one with
\* the same key, the empty tag gives the empty map, and a token that is not
\* `key` or `key=value` is an error.
parseTag(tag) ==
    LET bad  == \E i \in DOMAIN tag : Len(tag[i]) \notin {1, 2}
        keys == {tag[i][1] : i \in {j \in DOMAIN tag : Len(tag[j]) > 0}}
        last(k) == CHOOSE i \in DOMAIN tag :
                      /\ Len(tag[i]) > 0 /\ tag[i][1] = k
                      /\ \A j \in DOMAIN tag :
                            (Len(tag[j]) > 0 /\ tag[j][1] = k) => j <= i
    IN  IF bad THEN [err |-> TRUE, map |-> <<>>]
        ELSE [err |-> FALSE,
              map |-> [k \in keys |->
                         IF Len(tag[last(k)]) = 2 THEN tag[last(k)][2] ELSE ""]]

\* Field.Configure: reads the variant's own options from the tag map and
\* fails on an option value the variant cannot use: the integer variant's
\* `max` bound must be a number.
Numerals == {"0", "10", "255"}

Configure(variant, tagMap) ==
    IF variant = "int" /\ "max" \in DOMAIN tagMap /\ tagMap["max"] \notin Numerals
    THEN "error" ELSE Nil

----------------------------------------------------------------------------
(* RegisterModel: the pass over the struct fields *)

\* Variant: a tag is skipped as soon as one of its tokens is "-"
IsSkipped_AnyToken(tag) == \E i \in DOMAIN tag : tag[i] = <<"-">>

\* `if tag == "-" { continue }`
IsSkipped(tag) == tag = SkipTag

\* Variant: no "Id" for a pointer
FieldName_NoSuffix(refl) == refl.Name

\* fieldName: pointers are foreign keys and get the form Field[Id]
FieldName(refl) ==
    IF refl.Kind = "ptr" THEN refl.Name \o "Id" ELSE refl.Name

\* Variant: the column is the field name, "Id" included, without a transform
TableField_Suffixed(refl, nt) ==
    IF nt # Nil THEN NameTransform(nt, FieldName(refl)) ELSE FieldName(refl)

\* tableField: the struct key transformed to a column name if needed
TableField(refl, nt) ==
    IF nt # Nil THEN NameTransform(nt, FieldName(refl)) ELSE refl.Name

\* Variant: a `Field` value other than `url` leaves the choice to the kind
ChooseField_FallBack(kind, tagMap) ==
    IF "Field" \in DOMAIN tagMap /\ tagMap["Field"] = "url" THEN "url"
    ELSE CASE kind = "string" -> "text"
           [] kind \in {"int", "int16", "int32", "int64",
                        "uint", "uint16", "uint32", "uint64"} -> "int"
           [] kind \in {"float32", "float64"} -> "float"
           [] kind = "struct" -> "time"
           [] OTHER -> "text"

\* "Choose Field": the variant from the tag's Field key, else from the kind
ChooseField(kind, tagMap) ==
    IF "Field" \in DOMAIN tagMap
    THEN IF tagMap["Field"] = "url" THEN "url" ELSE "text"
    ELSE CASE kind = "string" -> "text"
           [] kind \in {"int", "int16", "int32", "int64",
                        "uint", "uint16", "uint32", "uint64"} -> "int"
           [] kind \in {"float32", "float64"} -> "float"
           [] kind = "struct" -> "time"
           [] OTHER -> "text"

\* label: the tag's label, else the field name
FieldLabel(tagMap, fieldName) ==
    IF "label" \in DOMAIN tagMap THEN tagMap["label"] ELSE fieldName

\* list: set when the tag map has the key `list` (a BaseField starts with
\* list = false)
FieldList(tagMap) == "list" \in DOMAIN tagMap

\* One iteration of the loop for a struct field that is not skipped and
\* whose tag parses: the configured Field, as its variant and its Attrs().
NewField(refl, nt) ==
    LET tagMap == parseTag(refl.Tag).map
    IN  [variant    |-> ChooseField(refl.Kind, tagMap),
         name       |-> FieldName(refl),
         label      |-> FieldLabel(tagMap, FieldName(refl)),
         columnName |-> TableField(refl, nt),
         list       |-> FieldList(tagMap)]

\* The loop panics on a tag that does not parse and on a Configure error.
FieldPanics(refl) ==
    /\ ~IsSkipped(refl.Tag)
    /\ \/ parseTag(refl.Tag).err
       \/ Configure(ChooseField(refl.Kind, parseTag(refl.Tag).map),
                    parseTag(refl.Tag).map) # Nil

RegisterPanics(mdl) == \E i \in DOMAIN mdl.Fields : FieldPanics(mdl.Fields[i])

\* am.fields after the loop
RECURSIVE modelFields(_, _)
modelFields(structFields, nt) ==
    IF structFields = <<>> THEN <<>>
    ELSE LET n    == Len(structFields)
             init == modelFields(SubSeq(structFields, 1, n - 1), nt)
             refl == structFields[n]
         IN  IF IsSkipped(refl.Tag) THEN init
             ELSE Append(init, NewField(refl, nt))

\* name: the last dot-separated part of t.String(), or AdminName() of a
\* namedModel
TypeName(mdl) == mdl.String[Len(mdl.String)]

ModelName(mdl) ==
    IF mdl.AdminName # Nil THEN mdl.AdminName ELSE TypeName(mdl)

\* Variant: the table name is taken from the name after AdminName()
TableName_FromDisplayName(mdl, nt) ==
    IF nt # Nil THEN NameTransform(nt, ModelName(mdl)) ELSE ModelName(mdl)

\* tableName: set from the type's name before AdminName() is consulted
TableName(mdl, nt) ==
    IF nt # Nil THEN NameTransform(nt, TypeName(mdl)) ELSE TypeName(mdl)

\* am, allocated with identity id
NewModel(mdl, nt, id) ==
    [id        |-> id,
     Name      |-> ModelName(mdl),
     Slug      |-> SlugAscii(ModelName(mdl)),
     tableName |-> TableName(mdl, nt),
     fields    |-> modelFields(mdl.Fields, nt),
     instance  |-> mdl]

\* Variant: a slug that is taken keeps its model
InsertModel_KeepFirst(ms, am) ==
    IF am.Slug \in DOMAIN ms THEN ms
    ELSE [s \in DOMAIN ms \cup {am.Slug} |-> IF s = am.Slug THEN am ELSE ms[s]]

\* g.admin.models[am.Slug] = &am
InsertModel(ms, am) ==
    [s \in DOMAIN ms \cup {am.Slug} |-> IF s = am.Slug THEN am ELSE ms[s]]

----------------------------------------------------------------------------
(* The model's projections *)

fieldNames(m) == [i \in DOMAIN m.fields |-> m.fields[i].name]

tableColumns(m) == [i \in DOMAIN m.fields |-> m.fields[i].columnName]

ListFields(m) == SelectSeq(m.fields, LAMBDA f : f.list)

listColumns(m) == [i \in DOMAIN ListFields(m) |-> ListFields(m)[i].label]

\* Variant: the columns of all fields, listed or not
listTableColumns_Unfiltered(m) == [i \in DOMAIN m.fields |-> m.fields[i].columnName]

listTableColumns(m) == [i \in DOMAIN ListFields(m) |-> ListFields(m)[i].columnName]

\* The position in m.fields of the first field with that name; 0 is nil.
fieldByName(m, name) ==
    IF \E i \in DOMAIN m.fields : m.fields[i].name = name
    THEN CHOOSE i \in DOMAIN m.fields :
            /\ m.fields[i].name = name
            /\ \A j \in DOMAIN m.fields : m.fields[j].name = name => i <= j
    ELSE 0

\* renderForm: the Render calls made, each as the position of the field it
\* was called on with the val and err it got, and whether the call
\* panicked (errors[i] out of range, Render on a nil Field).  errors is
\* [null, elems]: a nil slice has null = TRUE.
RECURSIVE renderLoop(_, _, _, _)
renderLoop(m, data, errors, n) ==
    IF n = 0 THEN [calls |-> <<>>, panicked |-> FALSE]
    ELSE LET prev    == renderLoop(m, data, errors, n - 1)
             hasData == Len(data) = Len(fieldNames(m))
             field   == fieldByName(m, fieldNames(m)[n])
         IN  IF prev.panicked THEN prev
             ELSE IF ~errors.null /\ n > Len(errors.elems)
                  THEN [calls |-> prev.calls, panicked |-> TRUE]
             ELSE IF field = 0
                  THEN [calls |-> prev.calls, panicked |-> TRUE]
             ELSE [calls |-> Append(prev.calls,
                        [field |-> field,
                         val   |-> IF hasData THEN data[n] ELSE Nil,
                         err   |-> IF errors.null THEN "" ELSE errors.elems[n]]),
                   panicked |-> FALSE]

renderForm(m, data, errors) == renderLoop(m, data, errors, Len(fieldNames(m)))

\* modelURL: the admin's path for a slug that is not registered
modelURL(slug, action) ==
    IF slug \notin DOMAIN models THEN admin.Path
    ELSE admin.Path \o "/model/" \o slug \o action

----------------------------------------------------------------------------
(* Inputs *)

Tags ==
    { <<>>,                                                  \* ``
      SkipTag,                                               \* `-`
      << <<"-">>, <<"list">> >>,                             \* `-,list`
      << <<"list">> >>,                                      \* `list`
      << <<"list", "no">> >>,                                \* `list=no`
      << <<"label", "Title">> >>,                            \* `label=Title`
      << <<"Field", "url">> >>,                              \* `Field=url`
      << <<"Field", "select">> >>,                           \* `Field=select`
      << <<"label", "Title">>, <<"list">>, <<"Field", "url">> >>,
      << <<"max", "abc">> >>,                                \* `max=abc`
      << <<"label", "a", "b">> >> }                          \* `label=a=b`

StructField(name, kind, tag) == [Name |-> name, Kind |-> kind, Tag |-> tag]

RecordType(str, adminName, fields) ==
    [String |-> str, AdminName |-> adminName, Fields |-> fields]

\* Record types of one struct field, of every kind and with every tag
SingleTypes ==
    {RecordType(<<"*models", "Item">>, Nil, <<StructField("Y", k, t)>>) :
        k \in Kinds, t \in Tags}

\* Struct fields that record types of several fields are made of
FieldPool ==
    { StructField("X",   "ptr",    <<>>),
      StructField("X",   "string", SkipTag),
      StructField("XId", "int",    <<>>),
      StructField("XId", "string", << <<"label", "Ref">>, <<"list">> >>),
      StructField("Y",   "string", << <<"list">> >>),
      StructField("Y",   "string", SkipTag),
      StructField("Z",   "float64", << <<"list">> >>) }

\* A struct's fields have distinct names
MultiTypes ==
    {RecordType(<<"*models", "Item">>, Nil, fs) :
        fs \in {f \in UNION {[1..n -> FieldPool] : n \in 0..MaxFields} :
                  \A i, j \in DOMAIN f : f[i].Name = f[j].Name => i = j}}

\* An application whose types share a slug: Entry calls itself "Post"
BlogTypes ==
    { RecordType(<<"*models", "Post">>, Nil,
                 <<StructField("Title", "string", << <<"list">> >>)>>),
      RecordType(<<"*blog", "Entry">>, "Post",
                 <<StructField("Title", "string", << <<"list">> >>),
                   StructField("Author", "ptr", <<>>)>>),
      RecordType(<<"*models", "Tag">>, "Blog Post",
                 <<StructField("Name", "string", <<>>)>>) }

Apps == {{T} : T \in SingleTypes \cup MultiTypes} \cup {BlogTypes}

GroupNames == {"Main"}

\* The values and the errors of a form, by position
ValueAt(i) == IF i % 2 = 1 THEN "a" ELSE "b"
ErrorAt(i) == IF i % 2 = 1 THEN "required" ELSE ""

DataArgs == {[i \in 1..n |-> ValueAt(i)] : n \in 0..MaxData}

ErrorsArgs ==
    {[null |-> TRUE, elems |-> <<>>]} \cup
    {[null |-> FALSE, elems |-> [i \in 1..n |-> ErrorAt(i)]] : n \in 0..MaxData}

----------------------------------------------------------------------------
(* The registry *)

NoRender == [model |-> 0, data |-> <<>>, errors |-> [null |-> TRUE, elems |-> <<>>],
             calls |-> <<>>, panicked |-> FALSE]

Init ==
    /\ admin \in {[Title |-> "", Path |-> "/admin", Username |-> u,
                   Password |-> "secret", NameTransform |-> nt,
                   sessions |-> Nil, db |-> Nil, modelsSet |-> FALSE] :
                     u \in {"", "root"}, nt \in NameTransforms}
    /\ models = <<>>
    /\ modelGroups = <<>>
    /\ nextId = 1
    /\ app \in Apps
    /\ w = NoRender
    /\ panicked = FALSE

\* Setup, called once when the process starts
Setup ==
    /\ ~panicked
    /\ ~admin.modelsSet
    /\ LET titled == [admin EXCEPT !.Title = IF @ = "" THEN "Admin" ELSE @]
       IN  admin' = IF titled.Username = "" \/ titled.Password = ""
                    THEN titled
                    ELSE [titled EXCEPT !.sessions = "empty", !.db = "sqlite3",
                                        !.modelsSet = TRUE]
    /\ models' = <<>>
    /\ modelGroups' = <<>>
    /\ UNCHANGED <<nextId, app, w, panicked>>

\* Admin.Group
Group(name) ==
    /\ ~panicked
    /\ admin.modelsSet
    /\ Len(modelGroups) < MaxGroups
    /\ modelGroups' = Append(modelGroups,
                             [Name |-> name, slug |-> SlugAscii(name), Models |-> <<>>])
    /\ UNCHANGED <<admin, models, nextId, app, w, panicked>>

\* modelGroup.RegisterModel on the g-th group
RegisterModel(g, mdl) ==
    /\ ~panicked
    /\ nextId <= MaxModels
    /\ IF RegisterPanics(mdl)
       THEN /\ panicked' = TRUE
            /\ UNCHANGED <<admin, models, modelGroups, nextId, app, w>>
       ELSE LET am == NewModel(mdl, admin.NameTransform, nextId)
            IN  /\ models' = InsertModel(models, am)
                /\ modelGroups' = [modelGroups EXCEPT ![g].Models = Append(@, am)]
                /\ nextId' = nextId + 1
                /\ UNCHANGED <<admin, app, w, panicked>>

\* A request for the form of the model registered under a slug
RenderForm(slug, data, errors) ==
    /\ ~panicked
    /\ LET m == models[slug]
           r == renderForm(m, data, errors)
       IN  w' = [model |-> m.id, data |-> data, errors |-> errors,
                 calls |-> r.calls, panicked |-> r.panicked]
    /\ UNCHANGED <<admin, models, modelGroups, nextId, app, panicked>>

\* Start-up: the application sets the admin up and registers its types
Next ==
    \/ Setup
    \/ \E name \in GroupNames : Group(name)
    \/ \E g \in DOMAIN modelGroups, mdl \in app : RegisterModel(g, mdl)

Spec == Init /\ [][Next]_vars

\* Serving: start-up is over (Setup, Group("Main") and RegisterModel of the
\* application's type have run) and requests render the model's form
InitForm ==
    \E nt \in NameTransforms :
        \E mdl \in {T \in SingleTypes \cup MultiTypes : ~RegisterPanics(T)} :
            LET am == NewModel(mdl, nt, 1)
            IN  /\ admin = [Title |-> "Admin", Path |-> "/admin", Username |-> "root",
                            Password |-> "secret", NameTransform |-> nt,
                            sessions |-> "empty", db |-> "sqlite3", modelsSet |-> TRUE]
                /\ models = InsertModel(<<>>, am)
                /\ modelGroups = <<[Name |-> "Main", slug |-> SlugAscii("Main"),
                                    Models |-> <<am>>]>>
                /\ nextId = 2
                /\ app = {mdl}
                /\ w = NoRender
                /\ panicked = FALSE

NextForm ==
    \E slug \in DOMAIN models, data \in DataArgs, errors \in ErrorsArgs :
        RenderForm(slug, data, errors)

SpecForm == InitForm /\ [][NextForm]_vars

----------------------------------------------------------------------------
(* Properties *)

\* Every model registered so far: those of the groups' lists (the map's
\* models are among them)
ListedModels == UNION {Range(modelGroups[g].Models) : g \in DOMAIN modelGroups}

AllModels == Range(models) \cup ListedModels

\* The struct fields of a type whose tag is not "-", in declaration order
Kept(mdl) == SelectSeq(mdl.Fields, LAMBDA refl : refl.Tag # SkipTag)

\* The keys of a tag, and the value a key has in it
TagKeys(tag) == {tag[i][1] : i \in DOMAIN tag}

TagValue(tag, key) ==
    LET i == CHOOSE i \in DOMAIN tag :
                /\ tag[i][1] = key
                /\ \A j \in DOMAIN tag : tag[j][1] = key => j <= i
    IN  IF Len(tag[i]) = 2 THEN tag[i][2] ELSE ""

\* The model the latest renderForm call was made on
Rendered(m) == w.model = m.id

\* C1: a registered model has exactly one field per struct field whose tag
\* is not "-", in declaration order; fieldNames(), tableColumns() and the
\* fields renderForm renders have no entry for a struct field tagged "-".
C1_SkippedFieldsOmitted ==
    \A m \in AllModels :
        LET kept == Kept(m.instance)
        IN  /\ Len(m.fields) = Len(kept)
            /\ Len(fieldNames(m)) = Len(kept)
            /\ Len(tableColumns(m)) = Len(kept)
            /\ \A i \in DOMAIN kept :
                  /\ fieldNames(m)[i] \in {kept[i].Name, kept[i].Name \o "Id"}
                  /\ tableColumns(m)[i] \in
                        {kept[i].Name, "db_" \o kept[i].Name,
                         "db_" \o kept[i].Name \o "Id"}
            /\ \A data \in DataArgs :
                  LET calls == renderForm(m, data, [null |-> TRUE, elems |-> <<>>]).calls
                  IN  /\ Len(calls) <= Len(kept)
                      /\ \A c \in DOMAIN calls :
                            /\ calls[c].field \in DOMAIN kept
                            /\ m.fields[calls[c].field].name \in
                                  {kept[c].Name, kept[c].Name \o "Id"}

C1_Witness ==
    \E m \in AllModels :
        /\ Len(m.instance.Fields) = 3
        /\ m.instance.Fields[1].Kind = "ptr"
        /\ m.instance.Fields[2].Tag = SkipTag
        /\ fieldNames(m) = <<m.instance.Fields[1].Name \o "Id", m.instance.Fields[3].Name>>
        /\ Len(tableColumns(m)) = 2
        /\ Len(renderForm(m, <<"a", "b">>, [null |-> TRUE, elems |-> <<>>]).calls) = 2

\* The positions of the kept struct fields whose tag has the key `list`
ListPositions(mdl) ==
    {i \in DOMAIN Kept(mdl) : "list" \in TagKeys(Kept(mdl)[i].Tag)}

\* C2: listColumns() and listTableColumns() have the same length and their
\* i-th entries are the label and the column of the i-th field, in
\* declaration order, whose tag had the key `list`.
C2_ListProjectionsAligned ==
    \A m \in AllModels :
        LET pos == ListPositions(m.instance)
            nth(j) == CHOOSE i \in pos : Cardinality({k \in pos : k <= i}) = j
        IN  /\ Len(listColumns(m)) = Len(listTableColumns(m))
            /\ Len(listColumns(m)) = Cardinality(pos)
            /\ \A i \in DOMAIN m.fields : m.fields[i].list <=> i \in pos
            /\ \A j \in 1..Cardinality(pos) :
                  /\ listColumns(m)[j] = m.fields[nth(j)].label
                  /\ listTableColumns(m)[j] = m.fields[nth(j)].columnName

C2_Witness ==
    \E m \in AllModels :
        /\ Len(m.fields) = 2
        /\ ~m.fields[1].list /\ m.fields[2].list
        /\ listColumns(m) = <<m.fields[2].label>>
        /\ listTableColumns(m) = <<m.fields[2].columnName>>

\* The variant the kind policy is stated to select
KindPolicy(kind) ==
    CASE kind = "string"      -> "text"
      [] kind \in IntKinds    -> "int"
      [] kind \in FloatKinds  -> "float"
      [] kind = "struct"      -> "time"
      [] OTHER                -> "text"

\* C3: without a `Field` key the variant is a function of the kind: string
\* is text, every integer kind (the 8-bit ones too) is integer, every
\* floating kind is float, struct is time, every other kind is text.
C3_KindSelectsVariant ==
    \A m \in AllModels :
        \A i \in DOMAIN m.fields :
            LET refl == Kept(m.instance)[i]
            IN  "Field" \notin TagKeys(refl.Tag) =>
                    m.fields[i].variant = KindPolicy(refl.Kind)

\* C4 as stated: with a `Field` key, `url` selects the URL variant and any
\* other value selects the variant the kind would select without the key.
C4_FieldOtherFallsBackToKind ==
    \A m \in AllModels :
        \A i \in DOMAIN m.fields :
            LET refl == Kept(m.instance)[i]
            IN  "Field" \in TagKeys(refl.Tag) =>
                    m.fields[i].variant =
                        IF TagValue(refl.Tag, "Field") = "url" THEN "url"
                        ELSE ChooseField(refl.Kind, <<>>)

\* C4 amended: with a `Field` key, `url` selects the URL variant and any
\* other value selects the text variant, whatever the kind.
C4_FieldOtherIsText ==
    \A m \in AllModels :
        \A i \in DOMAIN m.fields :
            LET refl == Kept(m.instance)[i]
            IN  "Field" \in TagKeys(refl.Tag) =>
                    m.fields[i].variant =
                        IF TagValue(refl.Tag, "Field") = "url" THEN "url" ELSE "text"

C4_Witness ==
    \E m \in AllModels :
        \E i \in DOMAIN m.fields :
            LET refl == Kept(m.instance)[i]
            IN  /\ "Field" \in TagKeys(refl.Tag)
                /\ TagValue(refl.Tag, "Field") # "url"
                /\ refl.Kind = "int"
                /\ m.fields[i].variant = "text"

\* The display name of a type: AdminName() of a self-naming type, else the
\* unqualified type name
DisplayName(mdl) ==
    IF mdl.AdminName # Nil THEN mdl.AdminName ELSE mdl.String[Len(mdl.String)]

Transformed(s) == IF admin.NameTransform # Nil THEN "db_" \o s ELSE s

\* C5 as stated: the table name is the name-transform of the display name,
\* or the display name verbatim without a transform.
C5_TableNameFromDisplayName ==
    \A m \in AllModels :
        /\ m.Name = DisplayName(m.instance)
        /\ m.tableName = Transformed(m.Name)

\* C5 amended: the display name is AdminName() of a self-naming type, else
\* the unqualified type name; the table name is the name-transform of the
\* unqualified type name, or that name verbatim without a transform, also
\* for a self-naming type.
C5_TableNameFromTypeName ==
    \A m \in AllModels :
        /\ m.Name = DisplayName(m.instance)
        /\ m.tableName = Transformed(m.instance.String[Len(m.instance.String)])

C5_Witness ==
    \E m \in AllModels :
        /\ m.instance.AdminName # Nil
        /\ admin.NameTransform # Nil
        /\ m.Name = "Post"
        /\ m.tableName = "db_Entry"

\* C6: without a name-transform the column is the struct field's own name
\* (the internal name of a field that is no reference, the internal name
\* less "Id" of a reference); with one it is the transform of the internal
\* name, "Id" included.
C6_ColumnName ==
    \A m \in AllModels :
        \A i \in DOMAIN m.fields :
            LET refl == Kept(m.instance)[i]
                f    == m.fields[i]
            IN  IF admin.NameTransform = Nil
                THEN /\ f.columnName = refl.Name
                     /\ refl.Kind # "ptr" => f.columnName = f.name
                     /\ refl.Kind = "ptr" => f.columnName \o "Id" = f.name
                ELSE f.columnName = Transformed(f.name)

C6_Witness ==
    \E m \in AllModels :
        \E i \in DOMAIN m.fields :
            /\ admin.NameTransform = Nil
            /\ Kept(m.instance)[i].Kind = "ptr"
            /\ m.fields[i].name = "XId"
            /\ m.fields[i].columnName = "X"

\* C7: the internal name is the struct field's name, with "Id" appended
\* exactly when the struct field is a pointer, with and without a
\* name-transform and for every variant; the label is the tag's `label`,
\* else the internal name.
C7_InternalNameAndLabel ==
    \A m \in AllModels :
        \A i \in DOMAIN m.fields :
            LET refl == Kept(m.instance)[i]
                f    == m.fields[i]
            IN  /\ f.name = IF refl.Kind = "ptr" THEN refl.Name \o "Id" ELSE refl.Name
                /\ f.label = IF "label" \in TagKeys(refl.Tag)
                             THEN TagValue(refl.Tag, "label") ELSE f.name

C7_Witness ==
    \E m \in AllModels :
        \E i \in DOMAIN m.fields :
            /\ admin.NameTransform # Nil
            /\ Kept(m.instance)[i].Kind = "ptr"
            /\ m.fields[i].variant = "url"
            /\ m.fields[i].name = "YId"
            /\ m.fields[i].label = "Title"

\* C8: a renderForm call whose data has another length than the model has
\* fields, with errors nil or of any length, does not fail and calls
\* Render on every field, each with no value.
C8_MismatchRendersEmpty ==
    \A m \in AllModels :
        (Rendered(m) /\ Len(w.data) # Len(m.fields)) =>
            /\ ~w.panicked
            /\ Len(w.calls) = Len(m.fields)
            /\ \A i \in DOMAIN w.calls :
                  w.calls[i].field = i /\ w.calls[i].val = Nil

\* C9: the map has one entry per slug registered so far, the model of the
\* latest registration with that slug, and modelURL knows the slug; the
\* groups' lists hold every model registered, overwritten ones too, each
\* list in registration order.
C9_LastWriteWins ==
    /\ DOMAIN models = {m.Slug : m \in ListedModels}
    /\ \A s \in DOMAIN models :
          /\ models[s] \in ListedModels
          /\ models[s].Slug = s
          /\ \A m \in ListedModels : m.Slug = s => m.id <= models[s].id
          /\ modelURL(s, "/new/") = "/admin/model/" \o s \o "/new/"
    /\ {m.id : m \in ListedModels} = 1..(nextId - 1)
    /\ \A g \in DOMAIN modelGroups :
          \A i, j \in DOMAIN modelGroups[g].Models :
              i < j => modelGroups[g].Models[i].id < modelGroups[g].Models[j].id
    /\ \A g, h \in DOMAIN modelGroups :
          \A i \in DOMAIN modelGroups[g].Models, j \in DOMAIN modelGroups[h].Models :
              modelGroups[g].Models[i].id = modelGroups[h].Models[j].id
                  => (g = h /\ i = j)

C9_Witness ==
    \E g \in DOMAIN modelGroups :
        \E i \in DOMAIN modelGroups[g].Models :
            LET old == modelGroups[g].Models[i]
            IN  /\ models[old.Slug].id # old.id
                /\ models[old.Slug].Name = "Post"
                /\ models[old.Slug].instance # old.instance

\* C10: fieldByName(fieldNames()[i]) is the i-th field, so renderForm calls
\* Render once on each field, in order, with the value and the error of the
\* same position.
C10_FieldByNameFindsEachField ==
    \A m \in AllModels :
        /\ \A i \in DOMAIN m.fields : fieldByName(m, fieldNames(m)[i]) = i
        /\ \A data \in DataArgs, errors \in ErrorsArgs :
              LET r == renderForm(m, data, errors)
              IN  ~r.panicked =>
                    /\ Len(r.calls) = Len(m.fields)
                    /\ \A i \in DOMAIN r.calls :
                          /\ r.calls[i].field = i
                          /\ Len(data) = Len(m.fields) => r.calls[i].val = data[i]
                          /\ ~errors.null => r.calls[i].err = errors.elems[i]

====
